---- MODULE Spec2Model ----
(***************************************************************************)
(* Boneh-Lynn-Shacham signatures (bls.go) with the hash utilities the      *)
(* aggregate verification uses (util.go).                                  *)
(*                                                                         *)
(* The pairing library is used through cgo.  Its groups G1, G2, GT and the *)
(* scalar field Zr all have prime order r; an element of G1, G2 or GT is   *)
(* represented by its discrete logarithm to a fixed generator of its       *)
(* group, so that group multiplication is addition of exponents modulo r,  *)
(* exponentiation is multiplication of exponents, and the pairing          *)
(* e(a^x, b^y) = e(a, b)^(x*y) is the product of the two exponents.        *)
(* An element of Zr is its residue.                                        *)
(***************************************************************************)
EXTENDS Integers, Sequences, FiniteSets, TLC

VARIABLES system, keys, shares, ret

vars == <<system, keys, shares, ret>>

(***************************************************************************)
(* Bounds of the model.                                                    *)
(***************************************************************************)
HashLength == 2     \* bytes of a digest (common.HashLength bytes in the code)
MaxByte == 1        \* digest bytes range over 0..MaxByte
MaxKeys == 3        \* key pairs one caller generates with GenKeys
MaxHashes == 3      \* longest list of digests, signatures or member ids passed in
MaxN == 3           \* largest number of members n, and largest threshold tried

Nil == "nil"

\* The order of the groups, system.pairing.get.r: a prime that exceeds every
\* difference of two evaluation points, as the code's 160-bit and 256-bit
\* orders exceed every difference of two ints.
r == 5

Zr == 0 .. (r - 1)

Digests == [1 .. HashLength -> 0 .. MaxByte]

(***************************************************************************)
(* Big integers and their byte strings.                                    *)
(***************************************************************************)
RECURSIVE SetBytesUpTo(_, _)
\* The value of the first n bytes of a big-endian byte string.
SetBytesUpTo(bytes, n) ==
    IF n = 0 THEN 0 ELSE 256 * SetBytesUpTo(bytes, n - 1) + bytes[n]

\* big.Int.SetBytes, common.Hash.Big, mpz_import(.., 1, 1, 1, 0, ..): the value
\* of a big-endian byte string.
SetBytes(bytes) == SetBytesUpTo(bytes, Len(bytes))

Big(hash) == SetBytes(hash)

RECURSIVE Bytes(_)
\* big.Int.Bytes: the big-endian bytes of the absolute value, empty for 0.
Bytes(x) ==
    IF x = 0 THEN <<>>
    ELSE Append(Bytes(x \div 256), x % 256)

\* big.Int.Cmp
Cmp(x, y) == IF x < y THEN 0 - 1 ELSE IF x > y THEN 1 ELSE 0

RECURSIVE Pow(_, _)
Pow(x, y) == IF y = 0 THEN 1 ELSE x * Pow(x, y - 1)

\* big.Int.Exp(x, y, nil): x**y, and 1 when y <= 0.
Exp(x, y) == IF y <= 0 THEN 1 ELSE Pow(x, y)

\* big.Int.Mod: the Euclidean modulus, never negative.
Mod(x, m) == x % m

\* A nil pointer to a big integer or to an element.
NilPointer == 0 - 1

\* big.Int.ModInverse(g, n): the inverse of g in Z/nZ, nil when there is none.
ModInverse(g, n) ==
    IF \E z \in 0 .. (n - 1) : (Mod(g, n) * z) % n = 1
    THEN CHOOSE z \in 0 .. (n - 1) : (Mod(g, n) * z) % n = 1
    ELSE NilPointer

(***************************************************************************)
(* The pairing library.                                                    *)
(***************************************************************************)
\* element_from_hash into Zr: the digest as an integer, reduced modulo r.
element_from_hash_Zr(hash) == Big(hash) % r

\* element_from_hash into G1 or G2: a point of the curve, never the identity.
element_from_hash_G(hash) == 1 + (Big(hash) % (r - 1))

element_set0 == 0

\* The identity of G1 (and of GT).
element_set1 == 0

\* element_add and element_mul_mpz in Zr.
element_add(a, b) == (a + b) % r

element_mul_mpz(a, z) == (a * (z % r)) % r

\* element_mul in G1 and GT, element_invert in GT.
element_mul(a, b) == (a + b) % r

element_invert(a) == (r - a) % r

\* element_pow_zn and element_pow_mpz in G1 and G2.
element_pow_zn(a, x) == (a * x) % r

element_pow_mpz(a, z) == (a * (z % r)) % r

element_pairing(a, b) == (a * b) % r

element_is1(a) == a = 0

\* element_to_bytes_compressed: the x coordinate, shared by a point and its
\* inverse, then one byte for the sign of y.
element_to_bytes_compressed(a) ==
    IF 2 * a < r THEN <<a, IF a = 0 THEN 0 ELSE 1>> ELSE <<r - a, 0>>

\* element_from_bytes_compressed: the point with that x coordinate and sign.
\* Bytes that hold no x coordinate of the curve decode to an unspecified
\* element: every element is a possible outcome.
element_from_bytes_compressed(bytes) ==
    IF 2 * bytes[1] < r
    THEN {IF bytes[1] = 0 THEN 0
          ELSE IF bytes[2] # 0 THEN bytes[1] ELSE r - bytes[1]}
    ELSE Zr

pairing_length_in_bytes_compressed_G1 == Len(element_to_bytes_compressed(element_set1))

(***************************************************************************)
(* util.go: ordering and duplicate detection of digests.  Lists are Go     *)
(* slices indexed from 0: element i of a list is hashes[i + 1] here.       *)
(***************************************************************************)
InRange(hashes, i) == 0 <= i /\ i < Len(hashes)

RECURSIVE scanUp(_, _, _)
\* for hashes[i].Big().Cmp(pivot) == -1 { i++ }: where the scan stops, or a
\* panic when it indexes outside the slice.
scanUp(hashes, i, pivot) ==
    IF ~InRange(hashes, i) THEN [at |-> i, panic |-> TRUE]
    ELSE IF Cmp(Big(hashes[i + 1]), pivot) = 0 - 1 THEN scanUp(hashes, i + 1, pivot)
    ELSE [at |-> i, panic |-> FALSE]

RECURSIVE scanDown(_, _, _)
\* for hashes[j].Big().Cmp(pivot) == 1 { j-- }
scanDown(hashes, j, pivot) ==
    IF ~InRange(hashes, j) THEN [at |-> j, panic |-> TRUE]
    ELSE IF Cmp(Big(hashes[j + 1]), pivot) = 1 THEN scanDown(hashes, j - 1, pivot)
    ELSE [at |-> j, panic |-> FALSE]

\* The exchange without tmp: hashes[i] = hashes[j]; hashes[j] = hashes[i]
swapWithoutTmp(hashes, i, j) ==
    [hashes EXCEPT ![i + 1] = hashes[j + 1]]

\* tmp = hashes[i]; hashes[i] = hashes[j]; hashes[j] = tmp
swap(hashes, i, j) ==
    [hashes EXCEPT ![i + 1] = hashes[j + 1], ![j + 1] = hashes[i + 1]]

Min(a, b) == IF a < b THEN a ELSE b

Max(a, b) == IF a > b THEN a ELSE b

RECURSIVE partition(_, _, _, _)
\* The loop for i <= j { ... } of quicksort: the list and the two indices
\* when it ends, with the lowest and the highest index of the slice it read
\* or wrote (Len(hashes) and -1 when it touched none).
partition(hashes, i, j, pivot) ==
    IF ~(i <= j)
    THEN [hashes |-> hashes, i |-> i, j |-> j, panic |-> FALSE,
          lo |-> Len(hashes), hi |-> 0 - 1]
    ELSE LET up == scanUp(hashes, i, pivot)
             down == scanDown(hashes, j, pivot)
             rest == IF up.at <= down.at
                     THEN partition(swap(hashes, up.at, down.at),
                                    up.at + 1, down.at - 1, pivot)
                     ELSE partition(hashes, up.at, down.at, pivot)
         IN  IF up.panic \/ down.panic
             THEN [hashes |-> hashes, i |-> up.at, j |-> down.at, panic |-> TRUE,
                   lo |-> Min(i, down.at), hi |-> Max(up.at, j)]
             ELSE [rest EXCEPT !.lo = Min(Min(i, down.at), rest.lo),
                               !.hi = Max(Max(up.at, j), rest.hi)]

RECURSIVE quicksort(_, _, _)
\* quicksort(hashes, l, r): the list afterwards, whether the call panicked,
\* and the calls made, this one and the recursive ones: for each its range
\* l, r, the indices i, j its loop ended with (they decide the recursive
\* calls (l, j) and (i, r)) and the lowest and highest index it touched.
quicksort(hashes, l, rr) ==
    IF ~(l < rr) THEN [hashes |-> hashes, panic |-> FALSE, calls |-> {}]
    ELSE LET pivot == Big(hashes[((l + rr) \div 2) + 1])
             p == partition(hashes, l, rr, pivot)
             call == [l |-> l, r |-> rr, i |-> p.i, j |-> p.j,
                      lo |-> p.lo, hi |-> p.hi]
             left == IF l < p.j THEN quicksort(p.hashes, l, p.j)
                     ELSE [hashes |-> p.hashes, panic |-> FALSE, calls |-> {}]
             right == IF p.i < rr THEN quicksort(left.hashes, p.i, rr)
                      ELSE [hashes |-> left.hashes, panic |-> FALSE, calls |-> {}]
         IN  IF p.panic
             THEN [hashes |-> p.hashes, panic |-> TRUE, calls |-> {call}]
             ELSE IF left.panic
             THEN [left EXCEPT !.calls = {call} \cup left.calls]
             ELSE [right EXCEPT !.calls = {call} \cup left.calls \cup right.calls]

\* sortHashes with a quicksort that makes no recursive call.
sortHashesWithoutRecursion(hashes) ==
    IF Len(hashes) < 2 THEN [hashes |-> hashes, panic |-> FALSE, calls |-> {}]
    ELSE LET l == 0
             rr == Len(hashes) - 1
             p == partition(hashes, l, rr, Big(hashes[((l + rr) \div 2) + 1]))
         IN  [hashes |-> p.hashes, panic |-> p.panic,
              calls |-> {[l |-> l, r |-> rr, i |-> p.i, j |-> p.j,
                          lo |-> p.lo, hi |-> p.hi]}]

\* sortHashes passing the length for the last index.
sortHashesToLength(hashes) == quicksort(hashes, 0, Len(hashes))

\* The run of sortHashes(hashes): quicksort(hashes, 0, n-1).
sortHashesRun(hashes) == quicksort(hashes, 0, Len(hashes) - 1)

\* The list sortHashes leaves in the slice it was passed.
sortHashes(hashes) == sortHashesRun(hashes).hashes

\* compare(a, b) of the later revision of util.go: the order of the first
\* byte that differs.
compare(a, b) ==
    IF \A i \in 1 .. Len(a) : a[i] = b[i] THEN 0
    ELSE LET i == CHOOSE k \in 1 .. Len(a) :
                      a[k] # b[k] /\ \A m \in 1 .. (k - 1) : a[m] = b[m]
         IN  IF a[i] > b[i] THEN 1 ELSE 0 - 1

\* make([]common.Hash, n): n zero digests.
make(n) == [i \in 1 .. n |-> [k \in 1 .. HashLength |-> 0]]

\* copy(dst, src): dst with its first min(len(dst), len(src)) elements
\* overwritten by those of src.
copy(dst, src) ==
    [i \in 1 .. Len(dst) |-> IF i <= Len(src) THEN src[i] ELSE dst[i]]

\* uniqueHashes sorting the slice it was passed: c := hashes.
uniqueHashesMemoryAliased(hashes) ==
    [hashes |-> sortHashes(hashes), c |-> sortHashes(hashes)]

\* The two slices of uniqueHashes when its loop begins: the caller's hashes
\* and the sorted copy c.
uniqueHashesMemory(hashes) ==
    LET n == Len(hashes)
        c == copy(make(n), hashes)
    IN  [hashes |-> hashes, c |-> sortHashes(c)]

\* uniqueHashes without the sort: neighbours of the list as passed in.
uniqueHashesUnsorted(hashes) ==
    \A i \in 0 .. (Len(hashes) - 2) : Cmp(Big(hashes[i + 1]), Big(hashes[i + 2])) # 0

\* The loop of uniqueHashes stopping one pair short: i < n-2.
uniqueHashesLoopStopsShort(c) ==
    \A i \in 0 .. (Len(c) - 3) : Cmp(Big(c[i + 1]), Big(c[i + 2])) # 0

\* The loop of uniqueHashes over the sorted copy c: false at the first two
\* neighbours that are equal, true when there are none.
uniqueHashesLoop(c) ==
    \A i \in 0 .. (Len(c) - 2) : Cmp(Big(c[i + 1]), Big(c[i + 2])) # 0

\* uniqueHashes: sorts a copy and compares neighbours.
uniqueHashes(hashes) == uniqueHashesLoop(uniqueHashesMemory(hashes).c)

(***************************************************************************)
(* bls.go: systems and keys.                                               *)
(***************************************************************************)
\* The zero values System{}, PublicKey{} and PrivateKey{}, returned with an error.
ZeroSystem == [pairing |-> NilPointer, g |-> NilPointer, signatureLength |-> 0]

ZeroPublicKey == [system |-> ZeroSystem, gx |-> NilPointer]

ZeroPrivateKey == [system |-> ZeroSystem, x |-> NilPointer]

\* A nil slice.
NilSlice == <<>>

\* The error of crypto/rand.Read.
RandomError == "rand.Read: error"

\* randomHash: a digest, or no digest and the error of the random source.
randomHash ==
    {[hash |-> d, err |-> Nil] : d \in Digests}
        \cup {[hash |-> NilSlice, err |-> RandomError]}

\* GenSystem(pairing), after randomHash returned rnd.
GenSystem(rnd) ==
    IF rnd.err # Nil THEN [system |-> ZeroSystem, err |-> rnd.err]
    ELSE [system |-> [pairing |-> r,
                      g |-> element_from_hash_G(rnd.hash),
                      signatureLength |-> pairing_length_in_bytes_compressed_G1],
          err |-> Nil]

\* GenKeys(system), after randomHash returned rnd.
GenKeys(sys, rnd) ==
    IF rnd.err # Nil
    THEN [key |-> ZeroPublicKey, secret |-> ZeroPrivateKey, err |-> rnd.err]
    ELSE LET x == element_from_hash_Zr(rnd.hash)
             gx == element_pow_zn(sys.g, x)
         IN  [key |-> [system |-> sys, gx |-> gx],
              secret |-> [system |-> sys, x |-> x],
              err |-> Nil]

\* The temporaries of a call, each named by its variable and an index.
Temp(name) == <<name, 0>>

Coeffs(n) == {<<"coeff", j>> : j \in 0 .. (n - 1)}

\* i**j with base and exponent exchanged.
ijExchanged(i, j) ==
    LET bytes == Bytes(Exp(j, i))
    IN  IF Len(bytes) = 0 THEN 0 ELSE SetBytes(bytes)

\* The big integer i**j as GenKeyShares hands it to the pairing library:
\* through its bytes, or mpz_set_si(0) when there are none.
ij(i, j) ==
    LET bytes == Bytes(Exp(i, j))
    IN  IF Len(bytes) = 0 THEN 0 ELSE SetBytes(bytes)

RECURSIVE secretShare(_, _, _)
\* secrets[i].x after the first t rounds of the loop over j.
secretShare(coeff, i, t) ==
    IF t = 0 THEN element_set0
    ELSE LET j == t - 1
             term == element_mul_mpz(coeff[j + 1], ij(i, j))
         IN  element_add(secretShare(coeff, i, j), term)

\* The index of the first call of randomHash that fails, 0 when none does.
FirstFailure(rnd) ==
    IF \E j \in 1 .. Len(rnd) : rnd[j].err # Nil
    THEN CHOOSE j \in 1 .. Len(rnd) :
             /\ rnd[j].err # Nil
             /\ \A k \in 1 .. (j - 1) : rnd[k].err = Nil
    ELSE 0

\* The key shares with the members given keys[0:n], secrets[0:n].
keySharesFromZero(coeff, t, n, sys) ==
    LET secrets == [i \in 1 .. (n + 1) |->
                       [system |-> sys, x |-> secretShare(coeff, i - 1, t)]]
        pubKeys == [i \in 1 .. (n + 1) |->
                       [system |-> sys, gx |-> element_pow_zn(sys.g, secrets[i].x)]]
    IN  [groupKey |-> pubKeys[1], memberKeys |-> SubSeq(pubKeys, 1, n),
         groupSecret |-> secrets[1], memberSecrets |-> SubSeq(secrets, 1, n)]

\* The key shares GenKeyShares makes of the polynomial with the coefficients
\* coeff: secrets[i] is its value at i and keys[i] the generator raised to it,
\* the group has keys[0], secrets[0] and the members keys[1:], secrets[1:].
keyShares(coeff, t, n, sys) ==
    LET secrets == [i \in 1 .. (n + 1) |->
                       [system |-> sys, x |-> secretShare(coeff, i - 1, t)]]
        pubKeys == [i \in 1 .. (n + 1) |->
                       [system |-> sys, gx |-> element_pow_zn(sys.g, secrets[i].x)]]
    IN  [groupKey |-> pubKeys[1], memberKeys |-> SubSeq(pubKeys, 2, n + 1),
         groupSecret |-> secrets[1], memberSecrets |-> SubSeq(secrets, 2, n + 1)]

\* The check with n <= t for n < t.
BadThresholdParametersStrict(t, n) == t < 1 \/ n <= t

\* if t < 1 || n < t
BadThresholdParameters(t, n) == t < 1 \/ n < t

\* GenKeyShares(t, n, system), where the j-th call of randomHash returns rnd[j].
GenKeyShares(t, n, sys, rnd) ==
    IF BadThresholdParameters(t, n)
    THEN [groupKey |-> ZeroPublicKey, memberKeys |-> NilSlice,
          groupSecret |-> ZeroPrivateKey, memberSecrets |-> NilSlice,
          err |-> "bls.GenKeyShares: Bad threshold parameters.",
          temps |-> {}, cleared |-> {}]
    ELSE IF FirstFailure(rnd) # 0
    THEN [groupKey |-> ZeroPublicKey, memberKeys |-> NilSlice,
          groupSecret |-> ZeroPrivateKey, memberSecrets |-> NilSlice,
          err |-> rnd[FirstFailure(rnd)].err,
          temps |-> Coeffs(FirstFailure(rnd) - 1), cleared |-> {}]
    ELSE LET coeff == [j \in 1 .. t |-> element_from_hash_Zr(rnd[j].hash)]
             made == keyShares(coeff, t, n, sys)
         IN  [groupKey |-> made.groupKey, memberKeys |-> made.memberKeys,
              groupSecret |-> made.groupSecret, memberSecrets |-> made.memberSecrets,
              err |-> Nil,
              temps |-> Coeffs(t) \cup {Temp("ij"), Temp("term")},
              cleared |-> Coeffs(t) \cup {Temp("ij"), Temp("term")}]

(***************************************************************************)
(* bls.go: signatures.  A call that decodes a signature has one result for *)
(* each element the bytes can decode to, so Verify, Aggregate,             *)
(* AggregateVerify and Recover are the sets of their possible results.     *)
(***************************************************************************)
Temps(names) == {Temp(name) : name \in names}

\* Sign with the exponentiation by the secret left out.
SignWithoutSecret(hash, secret) ==
    IF secret.system.signatureLength <= 0
    THEN [signature |-> NilSlice, err |-> "bls.Sign: Signature length must be positive.",
          temps |-> {}, cleared |-> {}]
    ELSE LET h == element_from_hash_G(hash)
         IN  [signature |-> element_to_bytes_compressed(h), err |-> Nil,
              temps |-> Temps({"h", "sigma"}), cleared |-> Temps({"h", "sigma"})]

\* Sign(hash, secret)
Sign(hash, secret) ==
    IF secret.system.signatureLength <= 0
    THEN [signature |-> NilSlice, err |-> "bls.Sign: Signature length must be positive.",
          temps |-> {}, cleared |-> {}]
    ELSE LET h == element_from_hash_G(hash)
             sigma == element_pow_zn(h, secret.x)
         IN  [signature |-> element_to_bytes_compressed(sigma), err |-> Nil,
              temps |-> Temps({"h", "sigma"}), cleared |-> Temps({"h", "sigma"})]

\* Verify with the right-hand side paired with the generator instead of the key.
VerifyAgainstGenerator(signature, hash, key) ==
    IF key.system.signatureLength <= 0
    THEN {[result |-> FALSE, err |-> "bls.Verify: Signature length must be positive.",
           temps |-> {}, cleared |-> {}]}
    ELSE IF key.system.signatureLength # Len(signature)
    THEN {[result |-> FALSE, err |-> "bls.Verify: Signature length mismatch.",
           temps |-> {}, cleared |-> {}]}
    ELSE {LET lhs == element_pairing(sigma, key.system.g)
              h == element_from_hash_G(hash)
              rhs == element_pairing(h, key.system.g)
          IN  [result |-> element_is1(element_mul(lhs, element_invert(rhs))),
               err |-> Nil,
               temps |-> Temps({"sigma", "lhs", "h", "rhs"}),
               cleared |-> Temps({"h", "lhs", "rhs", "sigma"})]
          : sigma \in element_from_bytes_compressed(signature)}

\* Verify(signature, hash, key)
Verify(signature, hash, key) ==
    IF key.system.signatureLength <= 0
    THEN {[result |-> FALSE, err |-> "bls.Verify: Signature length must be positive.",
           temps |-> {}, cleared |-> {}]}
    ELSE IF key.system.signatureLength # Len(signature)
    THEN {[result |-> FALSE, err |-> "bls.Verify: Signature length mismatch.",
           temps |-> {}, cleared |-> {}]}
    ELSE {LET lhs == element_pairing(sigma, key.system.g)
              h == element_from_hash_G(hash)
              rhs == element_pairing(h, key.gx)
          IN  [result |-> element_is1(element_mul(lhs, element_invert(rhs))),
               err |-> Nil,
               temps |-> Temps({"sigma", "lhs", "h", "rhs"}),
               cleared |-> Temps({"h", "lhs", "rhs", "sigma"})]
          : sigma \in element_from_bytes_compressed(signature)}

RECURSIVE aggregateSigma(_, _)
\* sigma after the signatures 0 .. n-1 were decoded and multiplied.
aggregateSigma(signatures, n) ==
    IF n = 1 THEN element_from_bytes_compressed(signatures[1])
    ELSE {element_mul(sigma, t) : sigma \in aggregateSigma(signatures, n - 1),
                                  t \in element_from_bytes_compressed(signatures[n])}

\* Aggregate with a loop that stops one signature short.
AggregateStopsShort(signatures, sys) ==
    IF Len(signatures) = 0
    THEN {[signature |-> NilSlice, err |-> "bls.Aggregate: Empty list.",
           temps |-> {}, cleared |-> {}]}
    ELSE IF sys.signatureLength <= 0
    THEN {[signature |-> NilSlice, err |-> "bls.Aggregate: Signature length must be positive.",
           temps |-> {}, cleared |-> {}]}
    ELSE IF \E i \in 1 .. Len(signatures) : sys.signatureLength # Len(signatures[i])
    THEN {[signature |-> NilSlice, err |-> "bls.Aggregate: Signature length mismatch.",
           temps |-> {}, cleared |-> {}]}
    ELSE {[signature |-> element_to_bytes_compressed(sigma), err |-> Nil,
           temps |-> Temps({"sigma", "t"}), cleared |-> Temps({"sigma", "t"})]
          : sigma \in aggregateSigma(signatures,
                                     IF Len(signatures) > 1 THEN Len(signatures) - 1 ELSE 1)}

\* Aggregate returning its zeroed buffer with the error of a length mismatch.
AggregateReturnsBuffer(signatures, sys) ==
    IF Len(signatures) = 0
    THEN {[signature |-> NilSlice, err |-> "bls.Aggregate: Empty list.",
           temps |-> {}, cleared |-> {}]}
    ELSE IF sys.signatureLength <= 0
    THEN {[signature |-> NilSlice, err |-> "bls.Aggregate: Signature length must be positive.",
           temps |-> {}, cleared |-> {}]}
    ELSE IF \E i \in 1 .. Len(signatures) : sys.signatureLength # Len(signatures[i])
    THEN {[signature |-> [i \in 1 .. sys.signatureLength |-> 0],
           err |-> "bls.Aggregate: Signature length mismatch.",
           temps |-> {}, cleared |-> {}]}
    ELSE {[signature |-> element_to_bytes_compressed(sigma), err |-> Nil,
           temps |-> Temps({"sigma", "t"}), cleared |-> Temps({"sigma", "t"})]
          : sigma \in aggregateSigma(signatures, Len(signatures))}

\* Aggregate(signatures, system)
Aggregate(signatures, sys) ==
    IF Len(signatures) = 0
    THEN {[signature |-> NilSlice, err |-> "bls.Aggregate: Empty list.",
           temps |-> {}, cleared |-> {}]}
    ELSE IF sys.signatureLength <= 0
    THEN {[signature |-> NilSlice, err |-> "bls.Aggregate: Signature length must be positive.",
           temps |-> {}, cleared |-> {}]}
    ELSE IF \E i \in 1 .. Len(signatures) : sys.signatureLength # Len(signatures[i])
    THEN {[signature |-> NilSlice, err |-> "bls.Aggregate: Signature length mismatch.",
           temps |-> {}, cleared |-> {}]}
    ELSE {[signature |-> element_to_bytes_compressed(sigma), err |-> Nil,
           temps |-> Temps({"sigma", "t"}), cleared |-> Temps({"sigma", "t"})]
          : sigma \in aggregateSigma(signatures, Len(signatures))}

RECURSIVE aggregateRhsWithGenerator(_, _, _)
\* rhs with every digest paired with the generator of the system of its key.
aggregateRhsWithGenerator(hashes, pubKeys, n) ==
    LET h == element_from_hash_G(hashes[n])
        t == element_pairing(h, pubKeys[n].system.g)
    IN  IF n = 1 THEN t
        ELSE element_mul(aggregateRhsWithGenerator(hashes, pubKeys, n - 1), t)

RECURSIVE aggregateRhs(_, _, _)
\* rhs after the pairings of the digests 0 .. n-1 with their keys were multiplied.
aggregateRhs(hashes, pubKeys, n) ==
    LET h == element_from_hash_G(hashes[n])
        t == element_pairing(h, pubKeys[n].gx)
    IN  IF n = 1 THEN t
        ELSE element_mul(aggregateRhs(hashes, pubKeys, n - 1), t)

\* AggregateVerify with the signature decoded before the digests are checked.
AggregateVerifyDecodesFirst(signature, hashes, pubKeys) ==
    IF Len(hashes) = 0
    THEN {[result |-> FALSE, err |-> "bls.AggregateVerify: Empty list.",
           hashes |-> hashes, temps |-> {}, cleared |-> {}]}
    ELSE IF Len(hashes) # Len(pubKeys)
    THEN {[result |-> FALSE, err |-> "bls.AggregateVerify: List length mismatch.",
           hashes |-> hashes, temps |-> {}, cleared |-> {}]}
    ELSE IF pubKeys[1].system.signatureLength <= 0
    THEN {[result |-> FALSE,
           err |-> "bls.AggregateVerify: Signature length must be positive.",
           hashes |-> hashes, temps |-> {}, cleared |-> {}]}
    ELSE IF pubKeys[1].system.signatureLength # Len(signature)
    THEN {[result |-> FALSE, err |-> "bls.AggregateVerify: Signature length mismatch.",
           hashes |-> hashes, temps |-> {}, cleared |-> {}]}
    ELSE IF ~uniqueHashes(hashes)
    THEN {[result |-> FALSE, err |-> "bls.AggregateVerify: Hashes must be distinct.",
           hashes |-> uniqueHashesMemory(hashes).hashes,
           temps |-> Temps({"sigma"}), cleared |-> Temps({"sigma"})]}
    ELSE {LET after == uniqueHashesMemory(hashes).hashes
              lhs == element_pairing(sigma, pubKeys[1].system.g)
              rhs == aggregateRhs(after, pubKeys, Len(after))
          IN  [result |-> element_is1(element_mul(lhs, element_invert(rhs))),
               err |-> Nil,
               hashes |-> after,
               temps |-> Temps({"sigma", "lhs", "h", "rhs", "t"}),
               cleared |-> Temps({"h", "lhs", "rhs", "sigma", "t"})]
          : sigma \in element_from_bytes_compressed(signature)}

\* AggregateVerify(signature, hashes, keys): what it returns, and the caller's
\* list of digests as the call leaves it.
AggregateVerify(signature, hashes, pubKeys) ==
    IF Len(hashes) = 0
    THEN {[result |-> FALSE, err |-> "bls.AggregateVerify: Empty list.",
           hashes |-> hashes, temps |-> {}, cleared |-> {}]}
    ELSE IF Len(hashes) # Len(pubKeys)
    THEN {[result |-> FALSE, err |-> "bls.AggregateVerify: List length mismatch.",
           hashes |-> hashes, temps |-> {}, cleared |-> {}]}
    ELSE IF pubKeys[1].system.signatureLength <= 0
    THEN {[result |-> FALSE,
           err |-> "bls.AggregateVerify: Signature length must be positive.",
           hashes |-> hashes, temps |-> {}, cleared |-> {}]}
    ELSE IF pubKeys[1].system.signatureLength # Len(signature)
    THEN {[result |-> FALSE, err |-> "bls.AggregateVerify: Signature length mismatch.",
           hashes |-> hashes, temps |-> {}, cleared |-> {}]}
    ELSE IF ~uniqueHashes(hashes)
    THEN {[result |-> FALSE, err |-> "bls.AggregateVerify: Hashes must be distinct.",
           hashes |-> uniqueHashesMemory(hashes).hashes,
           temps |-> {}, cleared |-> {}]}
    ELSE {LET after == uniqueHashesMemory(hashes).hashes
              lhs == element_pairing(sigma, pubKeys[1].system.g)
              rhs == aggregateRhs(after, pubKeys, Len(after))
          IN  [result |-> element_is1(element_mul(lhs, element_invert(rhs))),
               err |-> Nil,
               hashes |-> after,
               temps |-> Temps({"sigma", "lhs", "h", "rhs", "t"}),
               cleared |-> Temps({"h", "lhs", "rhs", "sigma", "t"})]
          : sigma \in element_from_bytes_compressed(signature)}

RECURSIVE lagrangePWithoutOffset(_, _, _)
\* p with the member ids themselves for the points memberIds[j]+1.
lagrangePWithoutOffset(memberIds, i, n) ==
    IF n = 0 THEN 1
    ELSE IF memberIds[i] # memberIds[n]
    THEN lagrangePWithoutOffset(memberIds, i, n - 1) * (0 - memberIds[n])
    ELSE lagrangePWithoutOffset(memberIds, i, n - 1)

RECURSIVE lagrangeP(_, _, _)
\* p after the members 0 .. n-1 were visited: the product of -(memberIds[j]+1)
\* over the j with memberIds[i] != memberIds[j].
lagrangeP(memberIds, i, n) ==
    IF n = 0 THEN 1
    ELSE IF memberIds[i] # memberIds[n]
    THEN lagrangeP(memberIds, i, n - 1) * (0 - (memberIds[n] + 1))
    ELSE lagrangeP(memberIds, i, n - 1)

RECURSIVE lagrangeQ(_, _, _)
\* q likewise: the product of (memberIds[i]+1) - (memberIds[j]+1).
lagrangeQ(memberIds, i, n) ==
    IF n = 0 THEN 1
    ELSE IF memberIds[i] # memberIds[n]
    THEN lagrangeQ(memberIds, i, n - 1) * ((memberIds[i] + 1) - (memberIds[n] + 1))
    ELSE lagrangeQ(memberIds, i, n - 1)

\* Whether v.ModInverse(q, r) is nil for member i: v.Mod(nil, r) then panics.
lambdaPanics(memberIds, i, order) ==
    ModInverse(lagrangeQ(memberIds, i, Len(memberIds)), order) = NilPointer

\* lambda with q in the place of its inverse.
lambdaWithoutInverse(memberIds, i, order) ==
    LET p == lagrangeP(memberIds, i, Len(memberIds))
        q == lagrangeQ(memberIds, i, Len(memberIds))
        bytes == Bytes(Mod(Mod(p, order) * Mod(q, order), order))
    IN  IF Len(bytes) = 0 THEN 0 ELSE SetBytes(bytes)

\* lambda for member i, handed over through its bytes.
lambda(memberIds, i, order) ==
    LET p == lagrangeP(memberIds, i, Len(memberIds))
        q == lagrangeQ(memberIds, i, Len(memberIds))
        bytes == Bytes(Mod(Mod(p, order) * Mod(ModInverse(q, order), order), order))
    IN  IF Len(bytes) = 0 THEN 0 ELSE SetBytes(bytes)

RECURSIVE recoverSigmaWithoutLambda(_, _, _, _)
\* sigma with the shares multiplied as they are, none raised to its lambda.
recoverSigmaWithoutLambda(signatures, memberIds, order, n) ==
    IF n = 0 THEN {element_set1}
    ELSE {element_mul(sigma, s)
          : sigma \in recoverSigmaWithoutLambda(signatures, memberIds, order, n - 1),
            s \in element_from_bytes_compressed(signatures[n])}

RECURSIVE recoverSigma(_, _, _, _)
\* sigma after the shares 0 .. n-1 were raised to their lambda and multiplied.
recoverSigma(signatures, memberIds, order, n) ==
    IF n = 0 THEN {element_set1}
    ELSE {element_mul(sigma, element_pow_mpz(s, lambda(memberIds, n, order)))
          : sigma \in recoverSigma(signatures, memberIds, order, n - 1),
            s \in element_from_bytes_compressed(signatures[n])}

\* Recover(signatures, memberIds, system)
Recover(signatures, memberIds, sys) ==
    IF Len(signatures) = 0
    THEN {[signature |-> NilSlice, err |-> "bls.Recover: Empty list.", panic |-> FALSE,
           temps |-> {}, cleared |-> {}]}
    ELSE IF Len(signatures) # Len(memberIds)
    THEN {[signature |-> NilSlice, err |-> "bls.Recover: List length mismatch.",
           panic |-> FALSE, temps |-> {}, cleared |-> {}]}
    ELSE IF sys.signatureLength <= 0
    THEN {[signature |-> NilSlice, err |-> "bls.Recover: Signature length must be positive.",
           panic |-> FALSE, temps |-> {}, cleared |-> {}]}
    ELSE IF \E i \in 1 .. Len(signatures) : sys.signatureLength # Len(signatures[i])
    THEN {[signature |-> NilSlice, err |-> "bls.Recover: Signature length mismatch.",
           panic |-> FALSE, temps |-> {}, cleared |-> {}]}
    ELSE IF \E i \in 1 .. Len(memberIds) : lambdaPanics(memberIds, i, sys.pairing)
    THEN {[signature |-> NilSlice, err |-> Nil, panic |-> TRUE,
           temps |-> Temps({"sigma", "lambda", "s"}), cleared |-> {}]}
    ELSE {[signature |-> element_to_bytes_compressed(sigma), err |-> Nil,
           panic |-> FALSE,
           temps |-> Temps({"sigma", "lambda", "s"}),
           cleared |-> Temps({"s", "lambda", "sigma"})]
          : sigma \in recoverSigma(signatures, memberIds, sys.pairing, Len(signatures))}

(***************************************************************************)
(* The caller.  It holds one system and the keys it generated on it:       *)
(* either key pairs of GenKeys, in the order generated, or one set of key  *)
(* shares of GenKeyShares.  ret is the call that just returned, with its   *)
(* arguments and what it returned, until the caller goes on.               *)
(***************************************************************************)
Range(list) == {list[i] : i \in 1 .. Len(list)}

Lists(S, n) == UNION {[1 .. k -> S] : k \in 0 .. n}

\* The keys and secrets held, by position: member k is at k + 1.
HeldKeys ==
    IF shares # <<>> THEN shares[1].memberKeys
    ELSE [i \in 1 .. Len(keys) |-> keys[i].key]

HeldSecrets ==
    IF shares # <<>> THEN shares[1].memberSecrets
    ELSE [i \in 1 .. Len(keys) |-> keys[i].secret]

KeyInputs ==
    Range(HeldKeys) \cup {ZeroPublicKey}
        \cup (IF shares # <<>> THEN {shares[1].groupKey} ELSE {})

SecretInputs ==
    Range(HeldSecrets) \cup {ZeroPrivateKey}
        \cup (IF shares # <<>> THEN {shares[1].groupSecret} ELSE {})

\* Signatures passed in: the encoding of every element of G1, bytes of the
\* right length that encode no element, and bytes of a wrong length.
Encodings == {element_to_bytes_compressed(a) : a \in Zr}

NoEncoding == <<r - 1, 1>>

TooShort == <<1>>

TooLong == <<1, 1, 1>>

SignatureInputs == Encodings \cup {NoEncoding, TooShort, TooLong}

SignatureLists == Lists(Encodings \cup {NoEncoding, TooShort}, MaxHashes)

HashLists == Lists(Digests, MaxHashes)

SystemInputs == {system, ZeroSystem}

\* The shares of one digest by the holders of the ids, as the caller collects
\* them with Sign.
signShares(hash, memberIds) ==
    [i \in 1 .. Len(memberIds) |-> Sign(hash, HeldSecrets[memberIds[i] + 1]).signature]

ShareLists(hash, memberIds) ==
    LET honest == signShares(hash, memberIds)
    IN  {honest}
            \cup (IF Len(honest) > 0
                  THEN {SubSeq(honest, 1, Len(honest) - 1),
                        [honest EXCEPT ![1] = TooShort]}
                  ELSE {})

\* No call has returned since the caller went on.
Idle == [op |-> "idle", err |-> Nil, temps |-> {}, cleared |-> {}]

Init ==
    /\ \E rnd \in randomHash :
          /\ GenSystem(rnd).err = Nil
          /\ system = GenSystem(rnd).system
    /\ keys = <<>>
    /\ shares = <<>>
    /\ ret = Idle

CallGenKeys ==
    /\ ret = Idle
    /\ shares = <<>>
    /\ Len(keys) < MaxKeys
    /\ \E rnd \in randomHash :
          LET res == GenKeys(system, rnd)
          IN  /\ keys' = IF res.err = Nil
                         THEN Append(keys, [key |-> res.key, secret |-> res.secret])
                         ELSE keys
              /\ ret' = [op |-> "GenKeys", key |-> res.key, secret |-> res.secret,
                         err |-> res.err, temps |-> {}, cleared |-> {}]
    /\ UNCHANGED <<system, shares>>

CallGenKeyShares ==
    /\ ret = Idle
    /\ shares = <<>>
    /\ keys = <<>>
    /\ \E t \in (0 - 1) .. MaxN, n \in (0 - 1) .. MaxN :
          \E rnd \in [1 .. t -> randomHash] :
             LET res == GenKeyShares(t, n, system, rnd)
             IN  /\ shares' = IF res.err = Nil
                              THEN <<[t |-> t, n |-> n,
                                      groupKey |-> res.groupKey,
                                      memberKeys |-> res.memberKeys,
                                      groupSecret |-> res.groupSecret,
                                      memberSecrets |-> res.memberSecrets]>>
                              ELSE shares
                 /\ ret' = [op |-> "GenKeyShares", t |-> t, n |-> n, rnd |-> rnd,
                            groupKey |-> res.groupKey, memberKeys |-> res.memberKeys,
                            groupSecret |-> res.groupSecret,
                            memberSecrets |-> res.memberSecrets,
                            err |-> res.err, temps |-> res.temps,
                            cleared |-> res.cleared]
    /\ UNCHANGED <<system, keys>>

CallSign ==
    /\ ret = Idle
    /\ \E hash \in Digests, secret \in SecretInputs :
          LET res == Sign(hash, secret)
          IN  ret' = [op |-> "Sign", hash |-> hash, secret |-> secret,
                      signature |-> res.signature, err |-> res.err,
                      temps |-> res.temps, cleared |-> res.cleared]
    /\ UNCHANGED <<system, keys, shares>>

CallVerify ==
    /\ ret = Idle
    /\ \E signature \in SignatureInputs, hash \in Digests, key \in KeyInputs :
          \E res \in Verify(signature, hash, key) :
             ret' = [op |-> "Verify", signature |-> signature, hash |-> hash,
                     key |-> key, result |-> res.result, err |-> res.err,
                     temps |-> res.temps, cleared |-> res.cleared]
    /\ UNCHANGED <<system, keys, shares>>

CallAggregate ==
    /\ ret = Idle
    /\ \E signatures \in SignatureLists, sys \in SystemInputs :
          \E res \in Aggregate(signatures, sys) :
             ret' = [op |-> "Aggregate", signatures |-> signatures, system |-> sys,
                     signature |-> res.signature, err |-> res.err,
                     temps |-> res.temps, cleared |-> res.cleared]
    /\ UNCHANGED <<system, keys, shares>>

CallAggregateVerify ==
    /\ ret = Idle
    /\ \E signature \in SignatureInputs, hashes \in HashLists :
          \E pubKeys \in {HeldKeys, [i \in 1 .. Len(hashes) |-> ZeroPublicKey]} :
             \E res \in AggregateVerify(signature, hashes, pubKeys) :
                ret' = [op |-> "AggregateVerify", signature |-> signature,
                        hashes |-> hashes, keys |-> pubKeys, after |-> res.hashes,
                        result |-> res.result, err |-> res.err,
                        temps |-> res.temps, cleared |-> res.cleared]
    /\ UNCHANGED <<system, keys, shares>>

CallRecover ==
    /\ ret = Idle
    /\ \E hash \in Digests, sys \in SystemInputs :
          \E memberIds \in Lists(0 .. (Len(HeldSecrets) - 1), MaxHashes) :
             \E signatures \in ShareLists(hash, memberIds) :
                \E res \in Recover(signatures, memberIds, sys) :
                   ret' = [op |-> "Recover", signatures |-> signatures,
                           memberIds |-> memberIds, system |-> sys,
                           signature |-> res.signature, err |-> res.err,
                           panic |-> res.panic,
                           temps |-> res.temps, cleared |-> res.cleared]
    /\ UNCHANGED <<system, keys, shares>>

\* The caller is done with what the call returned.
Continue ==
    /\ ret # Idle
    /\ ret' = Idle
    /\ UNCHANGED <<system, keys, shares>>

Next ==
    \/ CallGenKeys
    \/ CallGenKeyShares
    \/ CallSign
    \/ CallVerify
    \/ CallAggregate
    \/ CallAggregateVerify
    \/ CallRecover
    \/ Continue

Spec == Init /\ [][Next]_vars

(***************************************************************************)
(* The caller of the hash utilities alone, as the unit tests of util.go    *)
(* are: it holds no system and no keys, and passes lists of digests.       *)
(***************************************************************************)
UtilInit ==
    /\ system = ZeroSystem
    /\ keys = <<>>
    /\ shares = <<>>
    /\ ret = Idle

\* sortHashes(hashes): after is the caller's slice when the call returned.
CallSortHashes ==
    /\ ret = Idle
    /\ \E hashes \in HashLists :
          \E run \in {sortHashesRun(hashes)} :
             ret' = [op |-> "sortHashes", hashes |-> hashes,
                     after |-> run.hashes,
                     panic |-> run.panic, calls |-> run.calls,
                     err |-> Nil, temps |-> {}, cleared |-> {}]
    /\ UNCHANGED <<system, keys, shares>>

\* uniqueHashes(hashes): after is the caller's slice when the call returned.
CallUniqueHashes ==
    /\ ret = Idle
    /\ \E hashes \in HashLists :
          \E memory \in {uniqueHashesMemory(hashes)} :
             ret' = [op |-> "uniqueHashes", hashes |-> hashes,
                     after |-> memory.hashes,
                     result |-> uniqueHashesLoop(memory.c),
                     err |-> Nil, temps |-> {}, cleared |-> {}]
    /\ UNCHANGED <<system, keys, shares>>

UtilNext ==
    \/ CallSortHashes
    \/ CallUniqueHashes
    \/ Continue

UtilSpec == UtilInit /\ [][UtilNext]_vars

(***************************************************************************)
(* Properties.                                                             *)
(***************************************************************************)
Accepted == [result |-> TRUE, err |-> Nil]

Outcomes(results) == {[result |-> res.result, err |-> res.err] : res \in results}

\* C1: round-trip soundness.  For every key pair GenKeys returned on the
\* system (its signatureLength is positive) and every digest, Sign with the
\* secret returns a signature of signatureLength bytes and no error, and
\* Verify of that signature and digest with the public key of the pair
\* returns (true, nil).
C1_RoundTrip ==
    \A i \in 1 .. Len(keys) :
       /\ (ret.op = "Sign" /\ ret.secret = keys[i].secret)
             => /\ ret.err = Nil
                /\ Len(ret.signature) = system.signatureLength
       /\ (/\ ret.op = "Verify"
           /\ ret.key = keys[i].key
           /\ ret.signature = Sign(ret.hash, keys[i].secret).signature)
             => (ret.result = TRUE /\ ret.err = Nil)

C1_Witness ==
    \E i \in 1 .. Len(keys) :
       /\ ret.op = "Verify"
       /\ system.signatureLength > 0
       /\ ret.key = keys[i].key
       /\ keys[i].secret.x > 1
       /\ ret.signature = Sign(ret.hash, keys[i].secret).signature
       /\ ret.result = TRUE
       /\ ret.err = Nil

\* C8: cross-key rejection.  For two key pairs GenKeys returned on the
\* system with different secrets and every digest, Verify of the signature
\* Sign makes with the first secret, with the public key of the second pair,
\* returns false (and no error).
C8_CrossKey ==
    \A i, j \in 1 .. Len(keys) :
       (/\ ret.op = "Verify"
        /\ keys[i].secret.x # keys[j].secret.x
        /\ ret.key = keys[j].key
        /\ ret.signature = Sign(ret.hash, keys[i].secret).signature)
          => (ret.result = FALSE /\ ret.err = Nil)

C8_Witness ==
    \E i, j \in 1 .. Len(keys) :
       /\ ret.op = "Verify"
       /\ keys[i].secret.x # keys[j].secret.x
       /\ keys[i].secret.x # 0
       /\ keys[j].secret.x # 0
       /\ ret.key = keys[j].key
       /\ ret.signature = Sign(ret.hash, keys[i].secret).signature
       /\ ret.result = FALSE
       /\ ret.err = Nil

Distinct(list) == \A i, j \in 1 .. Len(list) : i # j => list[i] # list[j]

\* The signatures of the digests, the i-th with the secret of the i-th key pair.
Signed(hashes) == [i \in 1 .. Len(hashes) |-> Sign(hashes[i], keys[i].secret).signature]

\* C3: aggregate correctness.  For the k >= 1 key pairs GenKeys returned on
\* the system and k pairwise distinct digests, Aggregate of the k signatures
\* Sign makes returns a signature and no error, and AggregateVerify of it
\* with the digests and the public keys returns (true, nil).
C3_AggregateCorrect ==
    /\ (/\ ret.op = "Aggregate"
        /\ ret.system = system
        /\ \E hashes \in HashLists :
              /\ Len(hashes) = Len(keys)
              /\ Len(hashes) >= 1
              /\ ret.signatures = Signed(hashes))
          => ret.err = Nil
    /\ (/\ ret.op = "AggregateVerify"
        /\ shares = <<>>
        /\ ret.keys = HeldKeys
        /\ Len(ret.hashes) = Len(keys)
        /\ Len(ret.hashes) >= 1
        /\ Distinct(ret.hashes)
        /\ \E agg \in Aggregate(Signed(ret.hashes), system) :
              ret.signature = agg.signature)
          => (ret.result = TRUE /\ ret.err = Nil)

C3_Witness ==
    /\ ret.op = "AggregateVerify"
    /\ shares = <<>>
    /\ ret.keys = HeldKeys
    /\ Len(ret.hashes) = Len(keys)
    /\ Len(ret.hashes) = MaxHashes
    /\ Distinct(ret.hashes)
    /\ \A i \in 1 .. Len(keys) : keys[i].secret.x # 0
    /\ \E i, j \in 1 .. Len(keys) : keys[i].secret.x # keys[j].secret.x
    /\ \E agg \in Aggregate(Signed(ret.hashes), system) : ret.signature = agg.signature
    /\ ret.result = TRUE
    /\ ret.err = Nil

DuplicateError == "bls.AggregateVerify: Hashes must be distinct."

\* C4 as claimed: AggregateVerify returns the duplicate-message error, and
\* false, whenever two digests of the list are equal, whatever the signature.
C4_DuplicateAlways ==
    (ret.op = "AggregateVerify" /\ ~Distinct(ret.hashes))
       => (ret.err = DuplicateError /\ ret.result = FALSE)

\* C4, amended: whenever two digests of the list are equal AggregateVerify
\* returns false with an error; the error is the duplicate-message error when
\* the checks that come first pass, that is when there are as many keys as
\* digests, the signature length of the system is positive and the signature
\* has that length, whether or not its bytes encode an element.
C4_DuplicateRejected ==
    (ret.op = "AggregateVerify" /\ ~Distinct(ret.hashes))
       => /\ ret.err # Nil
          /\ ret.result = FALSE
          /\ (/\ Len(ret.hashes) = Len(ret.keys)
              /\ ret.keys[1].system.signatureLength > 0
              /\ ret.keys[1].system.signatureLength = Len(ret.signature))
                => ret.err = DuplicateError

C4_Witness ==
    /\ ret.op = "AggregateVerify"
    /\ Len(ret.hashes) = MaxHashes
    /\ ret.hashes[1] = ret.hashes[MaxHashes]
    /\ ret.hashes[1] # ret.hashes[2]
    /\ Len(ret.hashes) = Len(ret.keys)
    /\ ret.signature = NoEncoding
    /\ ret.err = DuplicateError
    /\ ret.result = FALSE

RECURSIVE Horner(_, _, _)
\* c[1] + c[2] * x + ... + c[n] * x^(n-1) modulo r.
Horner(c, x, k) ==
    IF k > Len(c) THEN 0
    ELSE (c[k] + x * Horner(c, x, k + 1)) % r

BadThresholdError == "bls.GenKeyShares: Bad threshold parameters."

\* C6: the polynomial of GenKeyShares.  With c_j the coefficient made of the
\* j-th random digest, the group secret is c_0, the secret of member k
\* (counted from 0) is the sum of the c_j * (k+1)^j modulo r, and every
\* public key returned is g raised to the secret returned with it.
C6_Polynomial ==
    (ret.op = "GenKeyShares" /\ ret.err = Nil)
       => LET c == [j \in 1 .. ret.t |-> element_from_hash_Zr(ret.rnd[j].hash)]
          IN  /\ ret.groupSecret.x = c[1]
              /\ ret.groupKey.gx = (system.g * ret.groupSecret.x) % r
              /\ \A k \in 0 .. (ret.n - 1) :
                    /\ ret.memberSecrets[k + 1].x = Horner(c, k + 1, 1)
                    /\ ret.memberKeys[k + 1].gx
                          = (system.g * ret.memberSecrets[k + 1].x) % r

C6_Witness ==
    /\ ret.op = "GenKeyShares"
    /\ ret.err = Nil
    /\ ret.t = MaxN
    /\ ret.n = MaxN
    /\ \A j \in 1 .. ret.t : element_from_hash_Zr(ret.rnd[j].hash) > 0
    /\ \E k \in 1 .. ret.n : ret.memberSecrets[k].x # ret.groupSecret.x

\* C7: the threshold parameters.  GenKeyShares returns the error of bad
\* threshold parameters, and no keys, exactly when t < 1 or n < t; when
\* 1 <= t <= n and no call of randomHash fails it returns no error, n member
\* public keys and n member secrets, and the group pair.
C7_Threshold ==
    ret.op = "GenKeyShares"
       => /\ (ret.err = BadThresholdError) <=> (ret.t < 1 \/ ret.n < ret.t)
          /\ ret.err = BadThresholdError
                => /\ ret.memberKeys = NilSlice
                   /\ ret.memberSecrets = NilSlice
                   /\ ret.groupKey = ZeroPublicKey
                   /\ ret.groupSecret = ZeroPrivateKey
          /\ (/\ 1 <= ret.t
              /\ ret.t <= ret.n
              /\ \A j \in 1 .. ret.t : ret.rnd[j].err = Nil)
                => /\ ret.err = Nil
                   /\ Len(ret.memberKeys) = ret.n
                   /\ Len(ret.memberSecrets) = ret.n
                   /\ ret.groupKey.system = system
                   /\ ret.groupSecret.system = system

C7_Witness ==
    /\ ret.op = "GenKeyShares"
    /\ ret.t = ret.n
    /\ ret.n = MaxN
    /\ ret.err = Nil
    /\ Len(ret.memberKeys) = MaxN

C7_WitnessError ==
    /\ ret.op = "GenKeyShares"
    /\ ret.t >= 1
    /\ ret.n = ret.t - 1
    /\ ret.err = BadThresholdError

\* The shares of digest d by the members of ret.memberIds were passed to the
\* Recover that returned.
RecoveredFrom(d) ==
    /\ ret.op = "Recover"
    /\ shares # <<>>
    /\ ret.system = system
    /\ ret.signatures = signShares(d, ret.memberIds)

\* C2: threshold correctness.  When GenKeyShares(t, n, system) made the
\* keys and t different members signed one digest, Recover of the t shares
\* and ids returns no error and the bytes Sign makes of the digest with the
\* group secret, the same for every choice and order of the t members, and
\* Verify accepts them with the group public key.
C2_Threshold ==
    \A d \in Digests :
       (/\ RecoveredFrom(d)
        /\ Len(ret.memberIds) = shares[1].t
        /\ Distinct(ret.memberIds))
          => /\ ret.err = Nil
             /\ ret.panic = FALSE
             /\ ret.signature = Sign(d, shares[1].groupSecret).signature
             /\ Outcomes(Verify(ret.signature, d, shares[1].groupKey)) = {Accepted}

C2_Witness ==
    \E d \in Digests :
       /\ RecoveredFrom(d)
       /\ shares[1].t = MaxN - 1
       /\ shares[1].n = MaxN
       /\ Len(ret.memberIds) = shares[1].t
       /\ Distinct(ret.memberIds)
       /\ ret.memberIds[1] > ret.memberIds[2] + 1
       /\ shares[1].groupSecret.x # 0
       /\ \A k \in 1 .. shares[1].n :
             shares[1].memberSecrets[k].x # shares[1].groupSecret.x
       /\ ret.err = Nil
       /\ Outcomes(Verify(ret.signature, d, shares[1].groupKey)) = {Accepted}

\* C5 as claimed: Recover returns an error and no signature whenever a member
\* id is repeated in memberIds.
C5_RepeatedIdFails ==
    (ret.op = "Recover" /\ ~Distinct(ret.memberIds))
       => (ret.err # Nil /\ ret.signature = NilSlice)

\* C9: no partial results.  When Verify or AggregateVerify returns an error
\* the boolean returned with it is false; when Sign, Aggregate or Recover
\* returns an error the signature returned with it is nil; and a call that
\* returns no error returns a boolean, or a signature of the signature
\* length of its system.
C9_NoPartialResults ==
    /\ ret.op \in {"Verify", "AggregateVerify"}
          => /\ ret.err # Nil => ret.result = FALSE
             /\ ret.err = Nil => ret.result \in BOOLEAN
    /\ ret.op \in {"Sign", "Aggregate", "Recover"}
          => /\ ret.err # Nil => ret.signature = NilSlice
             /\ ret.err = Nil
                   => /\ ret.signature # NilSlice
                      /\ Len(ret.signature) = system.signatureLength
                      /\ ret.signature \in Encodings

C9_Witness ==
    /\ ret.op = "Aggregate"
    /\ ret.system = system
    /\ Len(ret.signatures) = MaxHashes
    /\ Len(ret.signatures[MaxHashes]) # system.signatureLength
    /\ \A i \in 1 .. (MaxHashes - 1) : ret.signatures[i] \in Encodings
    /\ ret.err # Nil
    /\ ret.signature = NilSlice

\* C10 as claimed: when a call returns, every temporary element and big
\* integer it initialised has been cleared.
C10_Released == ret.temps \subseteq ret.cleared

(***************************************************************************)
(* Properties of the hash utilities.                                       *)
(***************************************************************************)
\* C11: uniqueHashes returns false for every list of digests in which some
\* digest is repeated, at two positions next to each other or not, and true
\* for every list of pairwise different digests, the empty list and the
\* lists of one digest among them.
C11_UniqueHashes ==
    ret.op = "uniqueHashes" => (ret.result <=> Distinct(ret.hashes))

C11_Witness ==
    /\ ret.op = "uniqueHashes"
    /\ Len(ret.hashes) = MaxHashes
    /\ ret.hashes[1] = ret.hashes[MaxHashes]
    /\ \A i \in 1 .. (MaxHashes - 1) : ret.hashes[i] # ret.hashes[i + 1]
    /\ ret.result = FALSE

\* The list is in non-decreasing order of its byte strings.
Sorted(list) ==
    \A i \in 1 .. (Len(list) - 1) : compare(list[i], list[i + 1]) # 1

\* C12: sortHashes leaves every list it is passed in non-decreasing
\* lexicographic order of the bytes of its digests, and of the same length:
\* sorted, reverse-sorted and all-equal lists, lists with repeated digests,
\* lists of one digest and the empty list.
C12_Sorted ==
    ret.op = "sortHashes"
       => /\ Len(ret.after) = Len(ret.hashes)
          /\ Sorted(ret.after)

C12_Witness ==
    /\ ret.op = "sortHashes"
    /\ Len(ret.hashes) = MaxHashes
    /\ \A i \in 1 .. (MaxHashes - 1) : compare(ret.hashes[i], ret.hashes[i + 1]) = 1
    /\ ret.after # ret.hashes
    /\ Sorted(ret.after)

\* The number of positions of the list that hold the digest.
Count(d, list) == Cardinality({i \in 1 .. Len(list) : list[i] = d})

\* C20: sortHashes only permutes.  The list it leaves holds every digest as
\* many times as the list it was passed.
C20_Permutation ==
    ret.op = "sortHashes"
       => \A d \in Range(ret.hashes) \cup Range(ret.after) :
             Count(d, ret.after) = Count(d, ret.hashes)

C20_Witness ==
    /\ ret.op = "sortHashes"
    /\ Len(ret.hashes) = MaxHashes
    /\ ret.after # ret.hashes
    /\ \E d \in Digests : Count(d, ret.hashes) = MaxHashes - 1
    /\ \A d \in Range(ret.hashes) : Count(d, ret.after) = Count(d, ret.hashes)

\* C19: index safety of quicksort.  In every call of quicksort that
\* sortHashes causes, the first with l = 0 and r = len-1, the scans and the
\* exchange touch indices of [l, r] only, so none is outside the slice and no
\* call panics, and each recursive call, on (l, j) or on (i, r), is on a
\* strictly smaller range within [l, r].
C19_IndexSafety ==
    ret.op = "sortHashes"
       => /\ ret.panic = FALSE
          /\ \A c \in ret.calls :
                /\ 0 <= c.l /\ c.r <= Len(ret.hashes) - 1
                /\ c.l <= c.lo /\ c.hi <= c.r
                /\ c.l < c.j => c.j < c.r
                /\ c.i < c.r => c.l < c.i

C19_Witness ==
    /\ ret.op = "sortHashes"
    /\ Len(ret.hashes) = MaxHashes
    /\ ret.panic = FALSE
    /\ \E c, d \in ret.calls :
          /\ c.l = 0 /\ c.r = MaxHashes - 1
          /\ d # c
          /\ c.l <= d.l /\ d.r <= c.r
          /\ d.r - d.l < c.r - c.l
          /\ d.l <= d.lo /\ d.hi <= d.r

(***************************************************************************)
(* Properties of the calls that use the hash utilities.                    *)
(***************************************************************************)
RECURSIVE PairedSum(_, _, _)
\* The exponent of the product of the pairings e(h(hashes[i]), keys[i].gx)
\* over the first n positions.
PairedSum(hashes, pubKeys, n) ==
    IF n = 0 THEN 0
    ELSE (PairedSum(hashes, pubKeys, n - 1)
             + element_from_hash_G(hashes[n]) * pubKeys[n].gx) % r

\* C13: the duplicate check never changes the caller's list of digests.
\* When AggregateVerify returns, with an error or without, the caller's list
\* holds the digests it held before at the same positions, as it does when
\* uniqueHashes returns; and when the call returns no error on a signature
\* that encodes an element, its boolean is that of the equation which pairs
\* digest i of the caller's list with public key i.
C13_CallerListKept ==
    ret.op = "AggregateVerify"
       => /\ ret.after = ret.hashes
          /\ uniqueHashesMemory(ret.hashes).hashes = ret.hashes
          /\ (ret.err = Nil /\ ret.signature \in Encodings)
                => \A sigma \in element_from_bytes_compressed(ret.signature) :
                      ret.result
                         <=> ((sigma * ret.keys[1].system.g) % r
                                 = PairedSum(ret.hashes, ret.keys, Len(ret.hashes)))

C13_Witness ==
    /\ ret.op = "AggregateVerify"
    /\ shares = <<>>
    /\ Len(ret.hashes) = MaxHashes
    /\ Len(keys) = MaxHashes
    /\ ret.keys = HeldKeys
    /\ \A i \in 1 .. (MaxHashes - 1) : compare(ret.hashes[i], ret.hashes[i + 1]) = 1
    /\ \E i, j \in 1 .. Len(keys) : keys[i].secret.x # keys[j].secret.x
    /\ \A i \in 1 .. Len(keys) : keys[i].secret.x # 0
    /\ \E agg \in Aggregate(Signed(ret.hashes), system) : ret.signature = agg.signature
    /\ ret.err = Nil
    /\ ret.result = TRUE
    /\ ret.after = ret.hashes

\* What the caller sees of a set of results: the boolean, and whether there
\* is an error.
Seen(results) == {[result |-> res.result, error |-> res.err # Nil] : res \in results}

\* C14: AggregateVerify generalises Verify.  For every signature s, digest d
\* and public key pk, AggregateVerify(s, [d], [pk]) returns the boolean
\* Verify(s, d, pk) returns, with an error exactly when Verify returns one:
\* what either call returned is what the other returns on the same
\* arguments.
C14_SingleDigest ==
    /\ (ret.op = "AggregateVerify" /\ Len(ret.hashes) = 1 /\ Len(ret.keys) = 1)
          => /\ [result |-> ret.result, error |-> ret.err # Nil]
                   \in Seen(Verify(ret.signature, ret.hashes[1], ret.keys[1]))
             /\ Seen(AggregateVerify(ret.signature, ret.hashes, ret.keys))
                   = Seen(Verify(ret.signature, ret.hashes[1], ret.keys[1]))
    /\ ret.op = "Verify"
          => /\ [result |-> ret.result, error |-> ret.err # Nil]
                   \in Seen(AggregateVerify(ret.signature, <<ret.hash>>, <<ret.key>>))
             /\ Seen(AggregateVerify(ret.signature, <<ret.hash>>, <<ret.key>>))
                   = Seen(Verify(ret.signature, ret.hash, ret.key))

C14_Witness ==
    /\ ret.op = "AggregateVerify"
    /\ Len(ret.hashes) = 1
    /\ Len(keys) = 1
    /\ ret.keys = HeldKeys
    /\ keys[1].secret.x > 1
    /\ ret.signature = Sign(ret.hashes[1], keys[1].secret).signature
    /\ ret.result = TRUE
    /\ ret.err = Nil
    /\ Seen(Verify(ret.signature, ret.hashes[1], ret.keys[1]))
          = {[result |-> TRUE, error |-> FALSE]}

\* The errors of the precondition checks.
PreconditionErrors ==
    {"bls.GenKeyShares: Bad threshold parameters.",
     "bls.Sign: Signature length must be positive.",
     "bls.Verify: Signature length must be positive.",
     "bls.Verify: Signature length mismatch.",
     "bls.Aggregate: Empty list.",
     "bls.Aggregate: Signature length must be positive.",
     "bls.Aggregate: Signature length mismatch.",
     "bls.AggregateVerify: Empty list.",
     "bls.AggregateVerify: List length mismatch.",
     "bls.AggregateVerify: Signature length must be positive.",
     "bls.AggregateVerify: Signature length mismatch.",
     "bls.AggregateVerify: Hashes must be distinct.",
     "bls.Recover: Empty list.",
     "bls.Recover: List length mismatch.",
     "bls.Recover: Signature length must be positive.",
     "bls.Recover: Signature length mismatch."}

\* C17: fail fast.  A call of GenKeyShares, Sign, Verify, Aggregate,
\* AggregateVerify or Recover that returns the error of a precondition check
\* (threshold parameters, empty list, list lengths, signature length,
\* distinct digests) has initialised no element and no big integer: nothing
\* was allocated, decoded, hashed to a group or paired before the check, and
\* GenKeyShares has made no key.
C17_FailFast ==
    ret.err \in PreconditionErrors
       => /\ ret.temps = {}
          /\ ret.op = "GenKeyShares"
                => /\ ret.memberKeys = NilSlice
                   /\ ret.memberSecrets = NilSlice
                   /\ ret.groupKey = ZeroPublicKey
                   /\ ret.groupSecret = ZeroPrivateKey

C17_Witness ==
    /\ ret.op = "AggregateVerify"
    /\ Len(ret.hashes) = MaxHashes
    /\ ret.keys = HeldKeys
    /\ ret.signature \in Encodings
    /\ ret.hashes[1] = ret.hashes[MaxHashes]
    /\ ret.err = DuplicateError
    /\ ret.temps = {}

(***************************************************************************)
(* Properties of the threshold scheme beyond recovery from t shares.       *)
(***************************************************************************)
\* C16: threshold secrecy.  When GenKeyShares(t, n, system) has returned
\* keys, then for every set S of fewer than t members and every candidate s
\* of Zr there are coefficients with c_0 = s of which GenKeyShares makes the
\* group secret s and, for the members of S, exactly the secrets (and public
\* keys) they hold: their secrets do not determine the group secret.
C16_Secrecy ==
    (ret.op = "GenKeyShares" /\ ret.err = Nil)
       => \A S \in SUBSET (0 .. (ret.n - 1)) :
             Cardinality(S) < ret.t
                => \A s \in Zr :
                      \E c \in [1 .. ret.t -> Zr] :
                         LET made == keyShares(c, ret.t, ret.n, system)
                         IN  /\ c[1] = s
                             /\ made.groupSecret.x = s
                             /\ \A k \in S :
                                   /\ made.memberSecrets[k + 1] = ret.memberSecrets[k + 1]
                                   /\ made.memberKeys[k + 1] = ret.memberKeys[k + 1]

C16_Witness ==
    /\ ret.op = "GenKeyShares"
    /\ ret.err = Nil
    /\ ret.t = MaxN
    /\ ret.n = MaxN
    /\ ret.groupSecret.x # 0
    /\ \A k \in 1 .. ret.n : ret.memberSecrets[k].x # ret.groupSecret.x
    /\ \E c \in [1 .. ret.t -> Zr] :
          LET made == keyShares(c, ret.t, ret.n, system)
          IN  /\ made.groupSecret.x # ret.groupSecret.x
              /\ \A k \in 0 .. (ret.t - 2) :
                    made.memberSecrets[k + 1] = ret.memberSecrets[k + 1]

\* The signatures Recover can return on the arguments.
Recovered(signatures, memberIds) ==
    {res.signature : res \in Recover(signatures, memberIds, system)}

\* C18: recovery from more shares than the threshold.  When
\* GenKeyShares(t, n, system) made the keys and k different members, with
\* t < k <= n, signed one digest, Recover of the k shares and ids returns no
\* error and the bytes that Recover returns for every t of these members, in
\* every order, which are the bytes Sign makes of the digest with the group
\* secret, and Verify accepts them with the group public key.
C18_MoreShares ==
    \A d \in Digests :
       (/\ RecoveredFrom(d)
        /\ Len(ret.memberIds) > shares[1].t
        /\ Distinct(ret.memberIds))
          => /\ ret.err = Nil
             /\ ret.panic = FALSE
             /\ ret.signature = Sign(d, shares[1].groupSecret).signature
             /\ \A sub \in [1 .. shares[1].t -> Range(ret.memberIds)] :
                   Distinct(sub)
                      => Recovered(signShares(d, sub), sub) = {ret.signature}
             /\ Outcomes(Verify(ret.signature, d, shares[1].groupKey)) = {Accepted}

C18_Witness ==
    \E d \in Digests :
       /\ RecoveredFrom(d)
       /\ shares[1].t = MaxN - 1
       /\ shares[1].n = MaxN
       /\ Len(ret.memberIds) = MaxN
       /\ Distinct(ret.memberIds)
       /\ ret.memberIds[1] > ret.memberIds[2]
       /\ shares[1].groupSecret.x # 0
       /\ \A k \in 1 .. shares[1].n :
             shares[1].memberSecrets[k].x # shares[1].groupSecret.x
       /\ ret.err = Nil
       /\ ret.signature = Sign(d, shares[1].groupSecret).signature

RECURSIVE Combined(_, _)
\* The exponent Recover combines of the secrets of the members at the first
\* n positions of memberIds: the sum of lambda_i * x_i modulo r.
Combined(memberIds, n) ==
    IF n = 0 THEN 0
    ELSE (Combined(memberIds, n - 1)
             + lambda(memberIds, n, r) * shares[1].memberSecrets[memberIds[n] + 1].x) % r

\* The shares of fewer members than the threshold, all different and at
\* least one, were passed to the Recover that returned.
FewerShares(d) ==
    /\ RecoveredFrom(d)
    /\ Len(ret.memberIds) >= 1
    /\ Distinct(ret.memberIds)
    /\ Len(ret.memberIds) < shares[1].t

\* C15 as claimed: Recover of the shares of fewer different members than
\* the threshold (at least one) returns signatureLength bytes and no error, and Verify
\* rejects them with the group public key.
C15_FewerSharesRejected ==
    \A d \in Digests :
       FewerShares(d)
          => /\ ret.err = Nil
             /\ Len(ret.signature) = system.signatureLength
             /\ Outcomes(Verify(ret.signature, d, shares[1].groupKey))
                   = {[result |-> FALSE, err |-> Nil]}

\* C15, amended: Recover of the shares of fewer different members than the
\* threshold returns signatureLength bytes and no error; Verify rejects them
\* with the group public key unless the combination of the members' secrets
\* that Recover forms, the sum of lambda_i * x_i modulo r, equals the group
\* secret, and then Verify accepts them.
C15_FewerShares ==
    \A d \in Digests :
       FewerShares(d)
          => /\ ret.err = Nil
             /\ ret.panic = FALSE
             /\ Len(ret.signature) = system.signatureLength
             /\ Outcomes(Verify(ret.signature, d, shares[1].groupKey))
                   = {[result |-> Combined(ret.memberIds, Len(ret.memberIds))
                                     = shares[1].groupSecret.x,
                       err |-> Nil]}

C15_Witness ==
    \E d \in Digests :
       /\ FewerShares(d)
       /\ shares[1].t = MaxN
       /\ Len(ret.memberIds) = MaxN - 1
       /\ Distinct(ret.memberIds)
       /\ shares[1].groupSecret.x # 0
       /\ ret.err = Nil
       /\ Len(ret.signature) = system.signatureLength
       /\ Outcomes(Verify(ret.signature, d, shares[1].groupKey))
             = {[result |-> FALSE, err |-> Nil]}

====
